---- MODULE Spec2Model ----
(***************************************************************************)
(* A model of the storage test bench of server.py: the gRPC servicer and   *)
(* the REST handlers, running on worker threads over one shared set of     *)
(* registries (buckets, objects, uploads).                                 *)
(*                                                                         *)
(* server.py holds the handlers.  The classes they call (gcs_bucket.Bucket,*)
(* gcs_object.Object, gcs_upload.Upload, utils) are not part of the source *)
(* at hand; their operations are modelled from the specification and are   *)
(* marked "spec" in the comments below.                                    *)
(*                                                                         *)
(* A handler that touches the registries once is one action.  A handler    *)
(* that other requests can overtake is several: the streamed InsertObject  *)
(* (one action per message), and the REST handlers that check a            *)
(* precondition in one call and create the object in a later one.          *)
(* A response is not kept in the state: each handler has an operator that   *)
(* gives the response code of a call from its inputs and the state it      *)
(* finds.  A call that fails before it changed anything leaves the state   *)
(* as it is: it is a stuttering step, which Spec allows, and the actions   *)
(* describe the calls that get further.  Of an object's metadata the model keeps bucket, name,        *)
(* generation and metageneration; the entries of its metadata map (the     *)
(* x_testbench_upload mark of server.py 132 and 583) are left out.         *)
(***************************************************************************)
EXTENDS Integers, Sequences, FiniteSets, TLC

(* ------------------------------ bounds -------------------------------- *)

\* Steps of handlers over a whole run.  The opening of a stream, which carries no
\* message, and the calls that fail before they changed anything are not counted.
MaxSteps == 4

\* Worker threads: one of the grpc pool, two of the REST server (threaded=True).
GrpcThreads == {"g1"}
RestThreads == {"r1", "r2"}
Threads == GrpcThreads \cup RestThreads
RestRank == [t \in RestThreads |-> IF t = "r1" THEN 1 ELSE 2]

TestBucket == "test-bucket"
BucketNames == {TestBucket, "b2"}
ObjectNames == {"x"}

\* A precondition, or a generation, that a request does not supply.
None == -1
\* ifGenerationMatch values a request may carry (0: the object must not exist).
Preconditions == {None, 0}

(* --------------------------- response codes --------------------------- *)

OK == "OK"
NotFound == "NotFound"
PreconditionFailed == "PreconditionFailed"
InvalidArgument == "InvalidArgument"
\* delete_resumable_upload's status 499.
RequestCancelled == "RequestCancelled"
\* An exception the handler does not raise through utils.abort (AttributeError):
\* grpc reports UNKNOWN, flask 500.
Unknown == "Unknown"
Errors == {NotFound, PreconditionFailed, InvalidArgument}

VARIABLES
    buckets,             \* bucket name -> [metageneration, versioning, is_locked, ...]
    objects,             \* <<bucket, name, generation>> -> object
    generation_counter,  \* the last generation issued, over the whole store
    issued,              \* <<bucket, name>> -> the generations issued, in order (history)
    uploads,             \* upload id (1..Len) -> upload; a cancelled one stays referenced
    thr,                 \* thread -> its position in a handler and its locals
    steps                \* state-changing steps taken

vars == <<buckets, objects, generation_counter, issued, uploads, thr, steps>>

Keys == BucketNames \X ObjectNames

\* The content of one chunk / one request body: nothing, or one byte.  No handler
\* reads the bytes it stores, so each byte sent is a new one: the contents of two
\* requests differ and the order of bytes in an object can be told.
Chunks == {<<>>, <<steps + 1>>}

(* ------------------------------ values -------------------------------- *)

\* The fields of an upload.  appended, finished and produced are history: the bytes
\* appended, whether a finish-flagged chunk was processed, the objects made of it.
NoUpload ==
    [bucket |-> "", name |-> "", ifGenerationMatch |-> None,
     media |-> <<>>, committed_size |-> 0, complete |-> FALSE, reg |-> "none",
     appended |-> 0, finished |-> FALSE, produced |-> 0]

\* The fields of an object.  of_finished is history: whether what the object was made
\* of was whole (an upload that had processed a finish-flagged chunk, or a request
\* that brought its content in one piece).
NoObject ==
    [bucket |-> "", name |-> "", generation |-> 0, metageneration |-> 0,
     media |-> <<>>, of_finished |-> TRUE, acl |-> <<>>]

\* A thread that serves no request.  upload and local: the handler's upload variable;
\* dirty: whether the call changed an object or a registered upload so far (history);
\* src, obj, dst, seen: objects_copy's source, destination, and the destination's
\* latest generation when the precondition was checked.
Idle ==
    [pc |-> "idle", upload |-> 0, local |-> NoUpload, dirty |-> FALSE,
     src |-> <<>>, obj |-> NoObject, dst |-> <<>>, seen |-> 0]

\* A registry with nothing in it.
EmptyMap == [k \in {} |-> 0]

Init ==
    /\ buckets = EmptyMap
    /\ objects = EmptyMap
    /\ generation_counter = 0
    /\ issued = [k \in Keys |-> <<>>]
    /\ uploads = <<>>
    /\ thr = [t \in Threads |-> Idle]
    /\ steps = 0

\* A REST request is served by an idle worker; the workers are alike, so the first
\* idle one takes it.
Takes(t) ==
    /\ thr[t].pc = "idle"
    /\ \A o \in RestThreads : thr[o].pc = "idle" => RestRank[t] <= RestRank[o]

\* One more step, within the bound.
Step ==
    /\ steps < MaxSteps
    /\ steps' = steps + 1

(* ------------------- buckets (gcs_bucket, utils: spec) ----------------- *)

\* utils.lookup_bucket: the bucket, None (FALSE here) when there is none.
lookup_bucket(bs, name) == name \in DOMAIN bs

\* gcs_bucket.Bucket(...): a new bucket registers itself under its name.  iam_policy
\* is the version of its policy and retention_period the period of its retention
\* policy (0: none).  acl_replaced and policy_kept are history: the inserts into acl
\* that found their entity there, and the updates that carried another retention
\* period than the one of the locked policy.
Bucket(bs, name) ==
    bs @@ (name :> [metageneration |-> 1, versioning |-> FALSE, is_locked |-> FALSE,
                    retention_period |-> 0, policy_kept |-> 0,
                    iam_policy |-> 0, acl |-> <<>>, acl_replaced |-> 0])

\* server.py 57-64: seeds the test bucket when it is not there yet.
insert_test_bucket(bs) ==
    IF lookup_bucket(bs, TestBucket)
    THEN bs
    ELSE [Bucket(bs, TestBucket) EXCEPT
             ![TestBucket].metageneration = 4, ![TestBucket].versioning = TRUE]

VersioningEnabled(bs, b) == b \in DOMAIN bs /\ bs[b].versioning

(* ------------------- objects (gcs_object, utils: spec) ----------------- *)

Max(S) == CHOOSE m \in S : \A x \in S : x <= m

\* The live generations of (bucket, name).
Generations(objs, b, n) == {k[3] : k \in {j \in DOMAIN objs : j[1] = b /\ j[2] = n}}

\* The latest live generation of (bucket, name), 0 when the object does not exist.
LatestGeneration(objs, b, n) ==
    IF Generations(objs, b, n) = {} THEN 0 ELSE Max(Generations(objs, b, n))

\* Object.lookup: the key of the named object, at the given generation or else the
\* latest live one; <<>> when there is none (NotFound).
ObjectLookup(objs, b, n, generation) ==
    LET g == IF generation = None THEN LatestGeneration(objs, b, n) ELSE generation
    IN IF <<b, n, g>> \in DOMAIN objs THEN <<b, n, g>> ELSE <<>>

\* utils.check_object_generation: whether ifGenerationMatch, when supplied, equals
\* the latest live generation of (bucket, name) (0: no live object).
check_object_generation(objs, b, n, ifGenerationMatch) ==
    ifGenerationMatch = None \/ ifGenerationMatch = LatestGeneration(objs, b, n)

\* The generation a new object of (bucket, name) gets: above every one issued, for
\* its name and for any other (a copy's generation differs from its source's).
NewGeneration_reuse(ctr, objs, b, n) == LatestGeneration(objs, b, n) + 1
NewGeneration(ctr, objs, b, n) == ctr + 1

\* gcs_object.Object(metadata, media): the registry with the new object in it.  The
\* object is built from a copy of the metadata it is given, at a new generation and
\* metageneration 1; without versioning it replaces the live object of its name.
Object(bs, objs, ctr, b, n, media, finished) ==
    LET g == NewGeneration(ctr, objs, b, n)
        kept == IF VersioningEnabled(bs, b)
                THEN DOMAIN objs
                ELSE {k \in DOMAIN objs : ~(k[1] = b /\ k[2] = n)}
    IN (<<b, n, g>> :> [bucket |-> b, name |-> n, generation |-> g, metageneration |-> 1,
                        media |-> media, of_finished |-> finished, acl |-> <<>>])
       @@ [k \in kept |-> objs[k]]

\* The generation counters, and the history of generations, after Object(...).
Counted(ctr, objs, b, n) == NewGeneration(ctr, objs, b, n)
Recorded(ctr, objs, b, n) ==
    [issued EXCEPT ![<<b, n>>] = Append(@, NewGeneration(ctr, objs, b, n))]

\* Object.delete: the registry without the object.
ObjectDelete(objs, key) == [k \in DOMAIN objs \ {key} |-> objs[k]]

\* Object.update(data): a metadata-only update adds one to the metageneration.
ObjectUpdate(objs, key) == [objs EXCEPT ![key].metageneration = @ + 1]

(* ---------------------- uploads (gcs_upload: spec) --------------------- *)

\* The upload a handler made for itself (resumable=False): it has no upload id.
Local == -1

\* gcs_upload.Upload(bucket, spec, resumable): a new, empty upload for the target of
\* the spec, holding the spec's preconditions; a resumable one is registered.
Upload(b, n, ifGenerationMatch, resumable) ==
    [NoUpload EXCEPT !.bucket = b, !.name = n, !.ifGenerationMatch = ifGenerationMatch,
                     !.reg = IF resumable THEN "registered" ELSE "local"]

\* Upload.lookup: whether the upload id names a registered upload (else NotFound).
UploadLookup(ups, u) == u \in 1..Len(ups) /\ ups[u].reg = "registered"

\* Upload.delete: the upload leaves the registry; who holds it keeps it.
UploadDelete(ups, u) == [ups EXCEPT ![u].reg = "cancelled"]

\* The upload a handler's variable refers to, and the registry after a write to it.
Deref(ups, loc, ref) == IF ref = Local THEN loc ELSE ups[ref]
Store_shared(ups, ref, up) == [u \in 1..Len(ups) |-> up]
Store(ups, ref, up) == IF ref = Local THEN ups ELSE [ups EXCEPT ![ref] = up]

\* Upload ids a request may name: those given out, and one that never was.
UploadIds == 1..(Len(uploads) + 1)

(* --------------------- StorageServicer.InsertObject -------------------- *)

\* The messages of a stream: which first_message it sets, what that holds, a chunk
\* and the finish flag.
Requests ==
    [first_message : {"none"}, upload_id : {0}, bucket : {""}, name : {""},
     ifGenerationMatch : {None}, content : Chunks, finish_write : BOOLEAN]
    \cup
    [first_message : {"upload_id"}, upload_id : UploadIds, bucket : {""}, name : {""},
     ifGenerationMatch : {None}, content : Chunks, finish_write : BOOLEAN]
    \cup
    [first_message : {"insert_object_spec"}, upload_id : {0}, bucket : BucketNames,
     name : ObjectNames, ifGenerationMatch : Preconditions, content : Chunks,
     finish_write : BOOLEAN]

\* server.py 95-105: the upload variable after the message's first_message.
Selected(me, req) ==
    CASE req.first_message = "upload_id" -> req.upload_id
      [] req.first_message = "insert_object_spec" -> Local
      [] OTHER -> me.upload

\* server.py 107: committed_size after an append.
CommittedSize_chunk(media, content) == Len(content)
CommittedSize(media, content) == Len(media)

\* server.py 106-110: the chunk of a message is appended to the upload, and the
\* upload completes when the message sets finish_write.
Receive(up, content, finish_write) ==
    LET media == up.media \o content
    IN [up EXCEPT !.media = media,
                  !.committed_size = CommittedSize(media, content),
                  !.complete = @ \/ finish_write,
                  !.appended = @ + Len(content),
                  !.finished = @ \/ finish_write]

\* server.py 111: the stream is over and the upload is not complete.
StreamIncomplete_never(up) == FALSE
StreamIncomplete(up) == ~up.complete

\* server.py 94-110: the response code of a message, OK when the stream goes on.
InsertObjectMessageCode(me, req) ==
    IF req.first_message = "upload_id" /\ ~UploadLookup(uploads, req.upload_id)
    THEN NotFound
    ELSE IF req.first_message = "insert_object_spec" /\ ~lookup_bucket(buckets, req.bucket)
    THEN NotFound
    ELSE IF Selected(me, req) = 0
    THEN Unknown   \* upload is None: upload.media raises AttributeError
    ELSE OK

\* server.py 111-114: the response code of a stream that ends with no finish_write.
InsertObjectEndCode(me) ==
    IF me.upload = 0
    THEN Unknown   \* upload is None: upload.complete raises AttributeError
    ELSE IF StreamIncomplete(Deref(uploads, me.local, me.upload))
    THEN InvalidArgument
    ELSE OK

\* server.py 113-114: the upload becomes an object; nothing but the upload's metadata
\* and media reaches gcs_object.Object.
InsertObjectCreate(t, ref, up) ==
    /\ objects' = Object(buckets, objects, generation_counter, up.bucket, up.name,
                         up.media, up.finished)
    /\ generation_counter' = Counted(generation_counter, objects, up.bucket, up.name)
    /\ issued' = Recorded(generation_counter, objects, up.bucket, up.name)
    /\ uploads' = Store(uploads, ref, [up EXCEPT !.produced = @ + 1])
    /\ thr' = [thr EXCEPT ![t] = Idle]

\* The call of thread t fails here; what it changed before stays changed.
Abort(t) ==
    /\ thr' = [thr EXCEPT ![t] = Idle]
    /\ UNCHANGED <<objects, generation_counter, issued, uploads>>

\* server.py 91-93: the call starts; no upload is selected yet.
InsertObjectOpen(t) ==
    /\ thr[t].pc = "idle"
    /\ steps < MaxSteps   \* a stream is opened while a message of it can follow
    /\ buckets' = insert_test_bucket(buckets)
    /\ thr' = [thr EXCEPT ![t] = [Idle EXCEPT !.pc = "InsertObject"]]
    /\ UNCHANGED <<objects, generation_counter, issued, uploads, steps>>

\* server.py 94-114: one message of the stream; a message that sets finish_write
\* ends the loop and the call goes on to create the object.
InsertObjectMessage(t, req) ==
    /\ thr[t].pc = "InsertObject"
    /\ Step
    /\ UNCHANGED buckets
    /\ LET me == thr[t]
           ref == Selected(me, req)
           loc == IF req.first_message = "insert_object_spec"
                  THEN Upload(req.bucket, req.name, req.ifGenerationMatch, FALSE)
                  ELSE me.local
       IN IF InsertObjectMessageCode(me, req) # OK
          THEN Abort(t)
          ELSE LET up == Receive(Deref(uploads, loc, ref), req.content, req.finish_write)
               IN IF req.finish_write
                  THEN InsertObjectCreate(t, ref, up)
                  ELSE /\ uploads' = Store(uploads, ref, up)
                       /\ thr' = [thr EXCEPT ![t] =
                                     [me EXCEPT !.upload = ref,
                                                !.local = IF ref = Local THEN up ELSE loc,
                                                !.dirty = @ \/ uploads' # uploads]]
                       /\ UNCHANGED <<objects, generation_counter, issued>>

\* server.py 111-114: the stream ends without a message that set finish_write.
InsertObjectEnd(t) ==
    /\ thr[t].pc = "InsertObject"
    /\ Step
    /\ UNCHANGED buckets
    /\ IF InsertObjectEndCode(thr[t]) # OK
       THEN Abort(t)
       ELSE InsertObjectCreate(t, thr[t].upload,
                               Deref(uploads, thr[t].local, thr[t].upload))

(* ------------- StartResumableWrite, QueryWriteStatus (grpc) ------------ *)

\* server.py 129-131: Upload(...) looks the bucket of the spec up.
StartResumableWriteCode(b) == IF lookup_bucket(buckets, b) THEN OK ELSE NotFound

\* server.py 127-133: a registered upload for the target of the spec.
StartResumableWrite(t, b, n, ifGenerationMatch) ==
    /\ thr[t].pc = "idle"
    /\ StartResumableWriteCode(b) = OK
    /\ Step
    /\ uploads' = Append(uploads, Upload(b, n, ifGenerationMatch, TRUE))
    /\ UNCHANGED <<buckets, objects, generation_counter, issued, thr>>

\* server.py 136: Upload.lookup.
QueryWriteStatusCode_open(u) ==
    IF UploadLookup(uploads, u) /\ ~uploads[u].complete THEN OK ELSE NotFound
QueryWriteStatusCode(u) == IF UploadLookup(uploads, u) THEN OK ELSE NotFound

\* server.py 137-139: the response holds the upload's fields as they are.
QueryWriteStatusResponse(up) ==
    [committed_size |-> up.committed_size, complete |-> up.complete]

\* server.py 135-139: nothing is written.
QueryWriteStatus(t, u) ==
    /\ thr[t].pc = "idle"
    /\ UNCHANGED vars

(* ------------------------- buckets_insert (REST) ----------------------- *)

\* server.py 182-186: a bucket of a name not in use yet.
buckets_insert(t, name) ==
    /\ Takes(t)
    /\ ~lookup_bucket(insert_test_bucket(buckets), name)
    /\ Step
    /\ buckets' = Bucket(insert_test_bucket(buckets), name)
    /\ UNCHANGED <<objects, generation_counter, issued, uploads, thr>>

(* ------------------ objects_insert (REST; Object.insert: spec) --------- *)

\* Generations a request may name for (bucket, name): none, or one ever issued.
GenerationArgs(b, n) ==
    {None} \cup {issued[<<b, n>>][i] : i \in 1..Len(issued[<<b, n>>])}

\* server.py 558-564, uploadType=media: Object.insert looks the bucket up, checks the
\* preconditions and creates the object in one call.
objects_insertCode(b, n, ifGenerationMatch) ==
    IF ~lookup_bucket(insert_test_bucket(buckets), b)
    THEN NotFound
    ELSE IF ~check_object_generation(objects, b, n, ifGenerationMatch)
    THEN PreconditionFailed
    ELSE OK

objects_insert(t, b, n, ifGenerationMatch, media) ==
    /\ Takes(t)
    /\ buckets' = insert_test_bucket(buckets)
    /\ IF objects_insertCode(b, n, ifGenerationMatch) # OK
       THEN /\ buckets' # buckets   \* the failing call has seeded the test bucket
            /\ UNCHANGED <<objects, generation_counter, issued, uploads, thr, steps>>
       ELSE /\ Step
            /\ objects' = Object(buckets', objects, generation_counter, b, n, media, TRUE)
            /\ generation_counter' = Counted(generation_counter, objects, b, n)
            /\ issued' = Recorded(generation_counter, objects, b, n)
            /\ UNCHANGED <<uploads, thr>>

\* server.py 558-564, uploadType=resumable: Object.insert starts a registered upload
\* that holds the request's preconditions, and returns its response.
objects_insert_resumable(t, b, n, ifGenerationMatch) ==
    /\ Takes(t)
    /\ buckets' = insert_test_bucket(buckets)
    /\ IF ~lookup_bucket(buckets', b)
       THEN /\ buckets' # buckets   \* the failing call has seeded the test bucket
            /\ UNCHANGED <<objects, generation_counter, issued, uploads, thr, steps>>
       ELSE /\ Step
            /\ uploads' = Append(uploads, Upload(b, n, ifGenerationMatch, TRUE))
            /\ UNCHANGED <<objects, generation_counter, issued, thr>>

(* ----------------------- resumable_upload_chunk ------------------------ *)

\* Upload.process_request (spec): the chunk is appended and committed_size follows;
\* the final chunk completes the upload.
process_request(up, content, final) ==
    [up EXCEPT !.media = @ \o content,
               !.committed_size = Len(up.media \o content),
               !.complete = final,
               !.appended = @ + Len(content),
               !.finished = final]

\* server.py 569-586: the response code of a chunk.  process_request answers with the
\* object's name for an upload that is complete already (server.py 574-577).
resumable_upload_chunkCode(bucket_name, u, final) ==
    IF u = 0
    THEN InvalidArgument
    ELSE IF ~UploadLookup(uploads, u)
    THEN NotFound
    ELSE IF uploads[u].complete
    THEN IF ObjectLookup(objects, bucket_name, uploads[u].name, None) = <<>>
         THEN NotFound ELSE OK
    ELSE IF final /\ ~check_object_generation(objects, uploads[u].bucket, uploads[u].name,
                                              uploads[u].ifGenerationMatch)
    THEN PreconditionFailed
    ELSE OK

\* server.py 569-581: the chunk is processed; after the final one the preconditions
\* of the upload are checked, and the handler goes on to create the object.
resumable_upload_chunk(t, bucket_name, u, content, final) ==
    /\ Takes(t)
    /\ u # 0 /\ UploadLookup(uploads, u) /\ ~uploads[u].complete
    /\ Step
    /\ uploads' = [uploads EXCEPT ![u] = process_request(@, content, final)]
    /\ thr' = IF final /\ resumable_upload_chunkCode(bucket_name, u, final) = OK
              THEN [thr EXCEPT ![t] =
                       [Idle EXCEPT !.pc = "resumable_upload_chunk", !.upload = u,
                                    !.dirty = TRUE,
                                    !.dst = <<uploads[u].bucket, uploads[u].name>>,
                                    !.seen = LatestGeneration(objects, uploads[u].bucket,
                                                              uploads[u].name)]]
              ELSE thr
    /\ UNCHANGED <<buckets, objects, generation_counter, issued>>

\* server.py 582-584: the object of the complete upload.
resumable_upload_create(t) ==
    /\ thr[t].pc = "resumable_upload_chunk"
    /\ Step
    /\ LET u == thr[t].upload
           up == uploads[u]
       IN /\ objects' = Object(buckets, objects, generation_counter, up.bucket, up.name,
                               up.media, up.finished)
          /\ generation_counter' = Counted(generation_counter, objects, up.bucket, up.name)
          /\ issued' = Recorded(generation_counter, objects, up.bucket, up.name)
          /\ uploads' = [uploads EXCEPT ![u].produced = @ + 1]
    /\ thr' = [thr EXCEPT ![t] = Idle]
    /\ UNCHANGED buckets

(* ----------------------- delete_resumable_upload ----------------------- *)

\* server.py 589-595: Upload.delete fails for an id that is not registered; the
\* cancellation itself is answered with 499.
delete_resumable_uploadCode(u) ==
    IF u = 0
    THEN InvalidArgument
    ELSE IF ~UploadLookup(uploads, u)
    THEN NotFound
    ELSE RequestCancelled

delete_resumable_upload(t, u) ==
    /\ Takes(t)
    /\ delete_resumable_uploadCode(u) = RequestCancelled
    /\ Step
    /\ uploads' = UploadDelete(uploads, u)
    /\ UNCHANGED <<buckets, objects, generation_counter, issued, thr>>

(* ----------------------------- objects_copy ---------------------------- *)

\* server.py 443-448: the source is looked up, then the destination's precondition
\* is checked.
objects_copyCode(sb, sn, generation, db, dn, ifGenerationMatch) ==
    IF ObjectLookup(objects, sb, sn, generation) = <<>>
    THEN NotFound
    ELSE IF ~check_object_generation(objects, db, dn, ifGenerationMatch)
    THEN PreconditionFailed
    ELSE OK

\* server.py 443-448: with both passed the handler holds the source object and goes
\* on to create the destination.
objects_copy(t, sb, sn, generation, db, dn, ifGenerationMatch) ==
    /\ Takes(t)
    /\ objects_copyCode(sb, sn, generation, db, dn, ifGenerationMatch) = OK
    /\ Step
    /\ thr' = [thr EXCEPT ![t] =
                  [Idle EXCEPT !.pc = "objects_copy",
                               !.src = ObjectLookup(objects, sb, sn, generation),
                               !.obj = objects[ObjectLookup(objects, sb, sn, generation)],
                               !.dst = <<db, dn>>,
                               !.seen = LatestGeneration(objects, db, dn)]]
    /\ UNCHANGED <<buckets, objects, generation_counter, issued, uploads>>

\* server.py 449-451: destination_metadata is the source object's own metadata, and
\* the destination's bucket and name are written into it.
DestinationMetadata(objs, src, db, dn) ==
    IF src \in DOMAIN objs
    THEN [objs EXCEPT ![src].bucket = db, ![src].name = dn]
    ELSE objs

\* server.py 454: the media the destination is created with.
SourceMedia_empty(source) == <<>>
SourceMedia(source) == source.media

\* server.py 452-457: Object(...) looks the destination's bucket up.
objects_copy_createCode(me) == IF lookup_bucket(buckets, me.dst[1]) THEN OK ELSE NotFound

\* server.py 449-459: the destination is created from the source's metadata and
\* media, then updated with the request's body.
objects_copy_create(t) ==
    /\ thr[t].pc = "objects_copy"
    /\ Step
    /\ LET me == thr[t]
           db == me.dst[1]
           dn == me.dst[2]
           source == IF me.src \in DOMAIN objects THEN objects[me.src] ELSE me.obj
           renamed == DestinationMetadata(objects, me.src, db, dn)
       IN IF objects_copy_createCode(me) # OK
          THEN /\ objects' = renamed
               /\ UNCHANGED <<generation_counter, issued>>
          ELSE /\ objects' = ObjectUpdate(
                                 Object(buckets, renamed, generation_counter, db, dn,
                                        SourceMedia(source), TRUE),
                                 <<db, dn, NewGeneration(generation_counter, objects, db, dn)>>)
               /\ generation_counter' = Counted(generation_counter, objects, db, dn)
               /\ issued' = Recorded(generation_counter, objects, db, dn)
    /\ thr' = [thr EXCEPT ![t] = Idle]
    /\ UNCHANGED <<buckets, uploads>>

(* ---------------------------- objects_compose -------------------------- *)

\* server.py 404: the most source objects a compose takes.
MaxComposeSources == 32

\* The longest media of an object that a full-length source list names.
MaxRepeatedMedia == 1

\* server.py 412-420: one entry of sourceObjects: a name with the generation it pins
\* (None: the latest), or a name with an ifGenerationMatch for its latest generation
\* (the last generation issued: it holds or not).
SourceObject(b) ==
    [name : ObjectNames,
     generation : UNION {GenerationArgs(b, n) : n \in ObjectNames},
     ifGenerationMatch : {None}]
    \cup [name : ObjectNames, generation : {None}, ifGenerationMatch : {generation_counter}]

\* The entries a full-length list is made of: a name alone, of an object that is not
\* there or of one of at most MaxRepeatedMedia bytes.
RepeatedSource(b) ==
    {s \in [name : ObjectNames, generation : {None}, ifGenerationMatch : {None}] :
        \/ ObjectLookup(objects, b, s.name, s.generation) = <<>>
        \/ Len(objects[ObjectLookup(objects, b, s.name, s.generation)].media)
               <= MaxRepeatedMedia}

\* The sourceObjects of a payload: no entry, one, two, or one entry as often as the
\* limit allows, or once more.
SourceLists(b) ==
    {<<>>} \cup {<<s>> : s \in SourceObject(b)}
           \cup {<<s1, s2>> : s1 \in SourceObject(b), s2 \in SourceObject(b)}
           \cup {[i \in 1..MaxComposeSources |-> s] : s \in RepeatedSource(b)}
           \cup {[i \in 1..(MaxComposeSources + 1) |-> s] : s \in RepeatedSource(b)}

\* The lists of at most two entries that name objects and pin generations.
PinnedSource(b) ==
    [name : ObjectNames,
     generation : UNION {GenerationArgs(b, n) : n \in ObjectNames},
     ifGenerationMatch : {None}]
PinnedLists(b) ==
    {<<>>} \cup {<<s>> : s \in PinnedSource(b)}
           \cup {<<s1, s2>> : s1 \in PinnedSource(b), s2 \in PinnedSource(b)}

\* server.py 404: the list is too long.
TooManySources_atlimit(sources) == Len(sources) >= MaxComposeSources
TooManySources(sources) == Len(sources) > MaxComposeSources

\* server.py 412-425: Object.lookup of one entry, with its generation and its
\* ifGenerationMatch (spec: NotFound when the object or the pinned generation is
\* not there, PreconditionFailed when ifGenerationMatch is not its generation).
SourceCode_unchecked(objs, b, s) ==
    IF ObjectLookup(objs, b, s.name, s.generation) = <<>> THEN NotFound ELSE OK
SourceCode(objs, b, s) ==
    IF ObjectLookup(objs, b, s.name, s.generation) = <<>>
    THEN NotFound
    ELSE IF /\ s.ifGenerationMatch # None
            /\ s.ifGenerationMatch # ObjectLookup(objs, b, s.name, s.generation)[3]
    THEN PreconditionFailed
    ELSE OK

RECURSIVE ComposedMedia_reversed(_, _, _)
ComposedMedia_reversed(objs, b, sources) ==
    IF sources = <<>>
    THEN <<>>
    ELSE ComposedMedia_reversed(objs, b, Tail(sources))
         \o objs[ObjectLookup(objs, b, sources[1].name, sources[1].generation)].media

RECURSIVE ComposedMedia(_, _, _)
\* server.py 410-426: the media of the sources, one after the other.
ComposedMedia(objs, b, sources) ==
    IF sources = <<>>
    THEN <<>>
    ELSE objs[ObjectLookup(objs, b, sources[1].name, sources[1].generation)].media
         \o ComposedMedia(objs, b, Tail(sources))

\* server.py 400-434: the response code; the first entry that fails ends the call.
objects_composeCode(b, is_null, sources) ==
    LET failing == {i \in 1..Len(sources) : SourceCode(objects, b, sources[i]) # OK}
    IN IF is_null
       THEN InvalidArgument
       ELSE IF TooManySources(sources)
       THEN InvalidArgument
       ELSE IF failing # {}
       THEN SourceCode(objects, b,
                       sources[CHOOSE i \in failing : \A j \in failing : i <= j])
       ELSE IF ~lookup_bucket(buckets, b)
       THEN NotFound
       ELSE OK

\* server.py 398-435: every source is looked up and read, then the destination is
\* created with the media of all.
objects_compose(t, b, n, is_null, sources) ==
    /\ Takes(t)
    /\ objects_composeCode(b, is_null, sources) = OK
    /\ Step
    /\ objects' = Object(buckets, objects, generation_counter, b, n,
                         ComposedMedia(objects, b, sources), TRUE)
    /\ generation_counter' = Counted(generation_counter, objects, b, n)
    /\ issued' = Recorded(generation_counter, objects, b, n)
    /\ UNCHANGED <<buckets, uploads, thr>>

(* ----------------------------- objects_delete -------------------------- *)

\* server.py 495: Object.lookup.
objects_deleteCode(b, n, generation) ==
    IF ObjectLookup(objects, b, n, generation) = <<>> THEN NotFound ELSE OK

\* server.py 493-497 (and DeleteObject, 122-125).
objects_delete(t, b, n, generation) ==
    /\ Takes(t)
    /\ objects_deleteCode(b, n, generation) = OK
    /\ Step
    /\ objects' = ObjectDelete(objects, ObjectLookup(objects, b, n, generation))
    /\ UNCHANGED <<buckets, generation_counter, issued, uploads, thr>>

(* --------------------------- the specification ------------------------- *)

GrpcCall(t) ==
    \/ InsertObjectOpen(t)
    \/ \E req \in Requests : InsertObjectMessage(t, req)
    \/ InsertObjectEnd(t)
    \/ \E b \in BucketNames, n \in ObjectNames, p \in Preconditions :
          StartResumableWrite(t, b, n, p)
    \/ \E u \in UploadIds : QueryWriteStatus(t, u)

RestCall(t) ==
    \/ \E name \in BucketNames : buckets_insert(t, name)
    \/ \E b \in BucketNames, n \in ObjectNames, p \in Preconditions, media \in Chunks :
          objects_insert(t, b, n, p, media)
    \/ \E b \in BucketNames, n \in ObjectNames, p \in Preconditions :
          objects_insert_resumable(t, b, n, p)
    \/ \E b \in BucketNames, u \in {0} \cup UploadIds, content \in Chunks, final \in BOOLEAN :
          resumable_upload_chunk(t, b, u, content, final)
    \/ resumable_upload_create(t)
    \/ \E u \in {0} \cup UploadIds : delete_resumable_upload(t, u)
    \/ \E sb \in BucketNames, sn \in ObjectNames, db \in BucketNames, dn \in ObjectNames,
          p \in Preconditions :
          \E g \in GenerationArgs(sb, sn) : objects_copy(t, sb, sn, g, db, dn, p)
    \/ objects_copy_create(t)
    \/ \E b \in BucketNames, n \in ObjectNames :
          \E sources \in PinnedLists(b) : objects_compose(t, b, n, FALSE, sources)
    \/ \E b \in BucketNames, n \in ObjectNames :
          \E g \in GenerationArgs(b, n) : objects_delete(t, b, n, g)

Next ==
    \/ \E t \in GrpcThreads : GrpcCall(t)
    \/ \E t \in RestThreads : RestCall(t)

Spec == Init /\ [][Next]_vars

(* ------------------ the object handlers on their own ------------------- *)

\* The REST handlers that create, copy, compose and delete objects, with every
\* source list: entries with preconditions, and lists at and above the limit.
ObjectsCall(t) ==
    \/ \E name \in BucketNames : buckets_insert(t, name)
    \/ \E b \in BucketNames, n \in ObjectNames, p \in Preconditions, media \in Chunks :
          objects_insert(t, b, n, p, media)
    \/ \E sb \in BucketNames, sn \in ObjectNames, db \in BucketNames, dn \in ObjectNames,
          p \in Preconditions :
          \E g \in GenerationArgs(sb, sn) : objects_copy(t, sb, sn, g, db, dn, p)
    \/ objects_copy_create(t)
    \/ \E b \in BucketNames, n \in ObjectNames :
          \E sources \in SourceLists(b) : objects_compose(t, b, n, FALSE, sources)
    \/ \E b \in BucketNames, n \in ObjectNames :
          \E g \in GenerationArgs(b, n) : objects_delete(t, b, n, g)

ObjectsNext == \E t \in RestThreads : ObjectsCall(t)

ObjectsSpec == Init /\ [][ObjectsNext]_vars

(* ------------- metadata (gcs_bucket, gcs_object: spec) ------------------ *)

\* Who an ACL entry is for, and what it grants.
Entities == {"user-a", "user-b"}
Roles == {"READER", "OWNER"}

\* ifMetagenerationMatch values a request may carry: none, or a number.
MetagenerationArgs == {None} \cup (1..(MaxSteps + 1))

\* lookup_acl: whether the list has an entry for the entity.
HasEntity(acl, entity) == \E i \in 1..Len(acl) : acl[i].entity = entity

\* insert_acl: the entry of the entity gets the role; an entity the list does not
\* have is added at the end.
insert_acl_append(acl, entity, role) == Append(acl, [entity |-> entity, role |-> role])
insert_acl(acl, entity, role) ==
    IF HasEntity(acl, entity)
    THEN [i \in 1..Len(acl) |->
             IF acl[i].entity = entity THEN [entity |-> entity, role |-> role] ELSE acl[i]]
    ELSE Append(acl, [entity |-> entity, role |-> role])

\* delete_acl: the list without the entry of the entity.
delete_acl(acl, entity) == SelectSeq(acl, LAMBDA e : e.entity # entity)

\* What an update of a bucket carries: the versioning flag and the period of the
\* retention policy.
RetentionPeriods == {0, 1}
BucketData == [versioning : BOOLEAN, retention_period : RetentionPeriods]

\* Bucket.update(data): the new configuration, one metageneration later; the
\* retention policy of a bucket that is locked stays as it is.
BucketUpdate_replace(bs, b, data) ==
    [bs EXCEPT ![b].versioning = data.versioning,
               ![b].retention_period = data.retention_period,
               ![b].is_locked = FALSE,
               ![b].metageneration = @ + 1]
BucketUpdate(bs, b, data) ==
    [bs EXCEPT ![b].versioning = data.versioning,
               ![b].retention_period = IF bs[b].is_locked THEN @ ELSE data.retention_period,
               ![b].policy_kept = @ + (IF /\ bs[b].is_locked
                                         /\ data.retention_period # bs[b].retention_period
                                      THEN 1 ELSE 0),
               ![b].metageneration = @ + 1]

\* Bucket.insert_acl, Bucket.delete_acl: the changed list, one metageneration later.
BucketInsertAcl(bs, b, entity, role) ==
    [bs EXCEPT ![b].acl = insert_acl(@, entity, role),
               ![b].acl_replaced = @ + (IF HasEntity(bs[b].acl, entity) THEN 1 ELSE 0),
               ![b].metageneration = @ + 1]
BucketDeleteAcl(bs, b, entity) ==
    [bs EXCEPT ![b].acl = delete_acl(@, entity), ![b].metageneration = @ + 1]

\* Bucket.insert_iam_policy: the next version of the policy, one metageneration later.
BucketInsertIamPolicy(bs, b) ==
    [bs EXCEPT ![b].iam_policy = @ + 1, ![b].metageneration = @ + 1]

\* Object.insert_acl, Object.delete_acl: the changed list, one metageneration later.
ObjectInsertAcl(objs, key, entity, role) ==
    [objs EXCEPT ![key].acl = insert_acl(@, entity, role), ![key].metageneration = @ + 1]
ObjectDeleteAcl(objs, key, entity) ==
    [objs EXCEPT ![key].acl = delete_acl(@, entity), ![key].metageneration = @ + 1]

\* Object.lookup(bucket, name, args): NotFound without the object, PreconditionFailed
\* when args carry an ifMetagenerationMatch that is not the object's metageneration.
ObjectLookupCode(objs, b, n, args) ==
    LET key == ObjectLookup(objs, b, n, args.generation)
    IN IF key = <<>>
       THEN NotFound
       ELSE IF args.ifMetagenerationMatch # None
               /\ args.ifMetagenerationMatch # objs[key].metageneration
       THEN PreconditionFailed
       ELSE OK

(* ------------------- buckets_update, buckets_patch --------------------- *)

\* server.py 196-201: the test bucket is seeded, then the bucket is looked up and
\* updated.
buckets_update(t, b, data) ==
    /\ Takes(t)
    /\ IF ~lookup_bucket(insert_test_bucket(buckets), b)
       THEN /\ buckets' = insert_test_bucket(buckets)
            /\ buckets' # buckets   \* the failing call has seeded the test bucket
            /\ UNCHANGED <<objects, generation_counter, issued, uploads, thr, steps>>
       ELSE /\ Step
            /\ buckets' = BucketUpdate(insert_test_bucket(buckets), b, data)
            /\ UNCHANGED <<objects, generation_counter, issued, uploads, thr>>

\* server.py 204-208: as buckets_update, with no seeding.
buckets_patch(t, b, data) ==
    /\ Takes(t)
    /\ lookup_bucket(buckets, b)
    /\ Step
    /\ buckets' = BucketUpdate(buckets, b, data)
    /\ UNCHANGED <<objects, generation_counter, issued, uploads, thr>>

(* ------------------------------ bucket ACL ----------------------------- *)

\* server.py 227-231: POST of an entry.
bucket_acl_create(t, b, entity, role) ==
    /\ Takes(t)
    /\ lookup_bucket(buckets, b)
    /\ Step
    /\ buckets' = BucketInsertAcl(buckets, b, entity, role)
    /\ UNCHANGED <<objects, generation_counter, issued, uploads, thr>>

\* server.py 241-248 (PUT) and 250-257 (PATCH): insert_acl(data, update=True).
bucket_acl_update(t, b, entity, role) ==
    /\ Takes(t)
    /\ lookup_bucket(buckets, b)
    /\ Step
    /\ buckets' = BucketInsertAcl(buckets, b, entity, role)
    /\ UNCHANGED <<objects, generation_counter, issued, uploads, thr>>

\* server.py 259-263: NotFound without the bucket or without the entry.
bucket_acl_deleteCode(b, entity) ==
    IF lookup_bucket(buckets, b) /\ HasEntity(buckets[b].acl, entity) THEN OK ELSE NotFound

bucket_acl_delete(t, b, entity) ==
    /\ Takes(t)
    /\ bucket_acl_deleteCode(b, entity) = OK
    /\ Step
    /\ buckets' = BucketDeleteAcl(buckets, b, entity)
    /\ UNCHANGED <<objects, generation_counter, issued, uploads, thr>>

(* ------------- bucket_set_iam_policy, bucket_lock_retention_policy ----- *)

\* server.py 363-367.
bucket_set_iam_policy(t, b) ==
    /\ Takes(t)
    /\ lookup_bucket(buckets, b)
    /\ Step
    /\ buckets' = BucketInsertIamPolicy(buckets, b)
    /\ UNCHANGED <<objects, generation_counter, issued, uploads, thr>>

\* server.py 381: bucket.metadata.retention_policy.is_locked = True.
LockRetentionPolicy_toggle(bucket) == [bucket EXCEPT !.is_locked = ~@]
LockRetentionPolicy(bucket) == [bucket EXCEPT !.is_locked = TRUE]

\* server.py 378-382: the handler sets the field itself; it calls nothing of the
\* bucket that would count the change.
bucket_lock_retention_policy(t, b) ==
    /\ Takes(t)
    /\ lookup_bucket(buckets, b)
    /\ Step
    /\ buckets' = [buckets EXCEPT ![b] = LockRetentionPolicy(@)]
    /\ UNCHANGED <<objects, generation_counter, issued, uploads, thr>>

(* -------------------- objects_update, objects_patch -------------------- *)

\* server.py 481, 488, 514, 528, 537, 546: the object handlers hand the arguments of
\* the request to Object.lookup.
request_args_dropped(generation, ifMetagenerationMatch) ==
    [generation |-> None, ifMetagenerationMatch |-> None]
request_args(generation, ifMetagenerationMatch) ==
    [generation |-> generation, ifMetagenerationMatch |-> ifMetagenerationMatch]

\* server.py 481: Object.lookup with the arguments of the request.
objects_updateCode(objs, b, n, generation, ifMetagenerationMatch) ==
    ObjectLookupCode(objs, b, n, request_args(generation, ifMetagenerationMatch))

\* server.py 479-483 (PUT) and 486-490 (PATCH).
objects_update(t, b, n, generation, ifMetagenerationMatch) ==
    /\ Takes(t)
    /\ objects_updateCode(objects, b, n, generation, ifMetagenerationMatch) = OK
    /\ Step
    /\ objects' = ObjectUpdate(objects, ObjectLookup(objects, b, n, generation))
    /\ UNCHANGED <<buckets, generation_counter, issued, uploads, thr>>

(* ------------------------------ object ACL ----------------------------- *)

\* server.py 512-516: POST of an entry.
objects_acl_create(t, b, n, generation, entity, role) ==
    /\ Takes(t)
    /\ ObjectLookupCode(objects, b, n, request_args(generation, None)) = OK
    /\ Step
    /\ objects' = ObjectInsertAcl(objects, ObjectLookup(objects, b, n, generation),
                                  entity, role)
    /\ UNCHANGED <<buckets, generation_counter, issued, uploads, thr>>

\* server.py 526-533 (PUT) and 535-542 (PATCH): insert_acl(data, update=True).
objects_acl_update(t, b, n, generation, entity, role) ==
    /\ Takes(t)
    /\ ObjectLookupCode(objects, b, n, request_args(generation, None)) = OK
    /\ Step
    /\ objects' = ObjectInsertAcl(objects, ObjectLookup(objects, b, n, generation),
                                  entity, role)
    /\ UNCHANGED <<buckets, generation_counter, issued, uploads, thr>>

\* server.py 544-548: NotFound without the object or without the entry.
objects_acl_deleteCode(b, n, generation, entity) ==
    IF ObjectLookupCode(objects, b, n, request_args(generation, None)) # OK
    THEN NotFound
    ELSE IF HasEntity(objects[ObjectLookup(objects, b, n, generation)].acl, entity)
    THEN OK
    ELSE NotFound

objects_acl_delete(t, b, n, generation, entity) ==
    /\ Takes(t)
    /\ objects_acl_deleteCode(b, n, generation, entity) = OK
    /\ Step
    /\ objects' = ObjectDeleteAcl(objects, ObjectLookup(objects, b, n, generation), entity)
    /\ UNCHANGED <<buckets, generation_counter, issued, uploads, thr>>

(* ----------------- the metadata handlers on their own ------------------ *)

\* The REST handlers that change the metadata of a bucket or of an object, with the
\* two that make buckets and objects.
MetadataCall(t) ==
    \/ \E name \in BucketNames : buckets_insert(t, name)
    \/ \E b \in BucketNames, n \in ObjectNames, media \in Chunks :
          objects_insert(t, b, n, None, media)
    \/ \E b \in BucketNames, data \in BucketData : buckets_update(t, b, data)
    \/ \E b \in BucketNames, data \in BucketData : buckets_patch(t, b, data)
    \/ \E b \in BucketNames, entity \in Entities, role \in Roles :
          bucket_acl_create(t, b, entity, role)
    \/ \E b \in BucketNames, entity \in Entities, role \in Roles :
          bucket_acl_update(t, b, entity, role)
    \/ \E b \in BucketNames, entity \in Entities : bucket_acl_delete(t, b, entity)
    \/ \E b \in BucketNames : bucket_set_iam_policy(t, b)
    \/ \E b \in BucketNames : bucket_lock_retention_policy(t, b)
    \/ \E b \in BucketNames, n \in ObjectNames, p \in MetagenerationArgs :
          \E g \in GenerationArgs(b, n) : objects_update(t, b, n, g, p)
    \/ \E b \in BucketNames, n \in ObjectNames, entity \in Entities, role \in Roles :
          \E g \in GenerationArgs(b, n) : objects_acl_create(t, b, n, g, entity, role)
    \/ \E b \in BucketNames, n \in ObjectNames, entity \in Entities, role \in Roles :
          \E g \in GenerationArgs(b, n) : objects_acl_update(t, b, n, g, entity, role)
    \/ \E b \in BucketNames, n \in ObjectNames, entity \in Entities :
          \E g \in GenerationArgs(b, n) : objects_acl_delete(t, b, n, g, entity)

MetadataNext == \E t \in RestThreads : MetadataCall(t)

MetadataSpec == Init /\ [][MetadataNext]_vars

(* --------------- insert_test_bucket, statement by statement ------------ *)

\* A worker of either server that can take a call.
Free(t) == IF t \in RestThreads THEN Takes(t) ELSE thr[t].pc = "idle"

\* server.py 58-61: a call that seeds finds no test bucket and goes on to make one.
\* (A call that finds one goes on to its handler at once.)
insert_test_bucket_lookup(t) ==
    /\ Free(t)
    /\ ~lookup_bucket(buckets, TestBucket)
    /\ thr' = [thr EXCEPT ![t] = [Idle EXCEPT !.pc = "insert_test_bucket_62"]]
    /\ UNCHANGED <<buckets, objects, generation_counter, issued, uploads, steps>>

\* server.py 62: gcs_bucket.Bucket(...) registers the bucket it makes; dirty tells
\* whether bucket_test is the bucket of the registry (a name in use stays with the
\* bucket that has it).
insert_test_bucket_create(t) ==
    /\ thr[t].pc = "insert_test_bucket_62"
    /\ buckets' = Bucket(buckets, TestBucket)
    /\ thr' = [thr EXCEPT ![t].pc = "insert_test_bucket_63",
                          ![t].dirty = ~lookup_bucket(buckets, TestBucket)]
    /\ UNCHANGED <<objects, generation_counter, issued, uploads, steps>>

\* server.py 63: bucket_test.metadata.metageneration = 4.
insert_test_bucket_metageneration(t) ==
    /\ thr[t].pc = "insert_test_bucket_63"
    /\ buckets' = IF thr[t].dirty
                  THEN [buckets EXCEPT ![TestBucket].metageneration = 4]
                  ELSE buckets
    /\ thr' = [thr EXCEPT ![t].pc = "insert_test_bucket_64"]
    /\ UNCHANGED <<objects, generation_counter, issued, uploads, steps>>

\* server.py 64: bucket_test.metadata.versioning.enabled = True; the handler that
\* called goes on, here to read (buckets_get, ListBuckets).
insert_test_bucket_versioning(t) ==
    /\ thr[t].pc = "insert_test_bucket_64"
    /\ buckets' = IF thr[t].dirty
                  THEN [buckets EXCEPT ![TestBucket].versioning = TRUE]
                  ELSE buckets
    /\ thr' = [thr EXCEPT ![t] = Idle]
    /\ UNCHANGED <<objects, generation_counter, issued, uploads, steps>>

\* server.py 189-193 (and GetBucket, 78-81): the bucket as a reader gets it.
buckets_getCode(b) == IF lookup_bucket(buckets, b) THEN OK ELSE NotFound
buckets_getResponse(b) ==
    [metageneration |-> buckets[b].metageneration, versioning |-> buckets[b].versioning]

\* server.py 189-193: a read of a bucket by a call that found the test bucket there.
buckets_get(t, b) ==
    /\ Free(t)
    /\ lookup_bucket(buckets, TestBucket)
    /\ buckets_getCode(b) = OK
    /\ UNCHANGED vars

\* Calls that seed the test bucket, with readers and the handlers that change a
\* bucket without seeding, on the workers of both servers.
SeedCall(t) ==
    \/ insert_test_bucket_lookup(t)
    \/ insert_test_bucket_create(t)
    \/ insert_test_bucket_metageneration(t)
    \/ insert_test_bucket_versioning(t)
    \/ \E b \in BucketNames : buckets_get(t, b)

SeedRestCall(t) ==
    \/ \E data \in BucketData : buckets_patch(t, TestBucket, data)
    \/ \E entity \in Entities, role \in Roles : bucket_acl_create(t, TestBucket, entity, role)
    \/ bucket_lock_retention_policy(t, TestBucket)

SeedNext ==
    \/ \E t \in Threads : SeedCall(t)
    \/ \E t \in RestThreads : SeedRestCall(t)

SeedSpec == Init /\ [][SeedNext]_vars

(* ------------------------------ properties ----------------------------- *)

\* The uploads there are: the registered and cancelled ones, and the ones the open
\* streams made for themselves.
AllUploads ==
    {uploads[u] : u \in 1..Len(uploads)}
    \cup {thr[t].local : t \in {g \in GrpcThreads : thr[g].upload = Local}}

\* C1: the generations issued for one (bucket, name), in the order they were issued,
\* are strictly increasing: each new object gets a generation above every one issued
\* before for its (bucket, name), and none is issued twice, deletions or not.
GenerationsNeverReused ==
    \A k \in Keys : \A i, j \in 1..Len(issued[k]) : i < j => issued[k][i] < issued[k][j]

\* C1, its case: a second generation was issued for an object of the versioned
\* bucket after the object of the first one was deleted.
GenerationIssuedAfterDelete ==
    \E k \in Keys :
        /\ k[1] = TestBucket
        /\ Len(issued[k]) >= 2
        /\ <<k[1], k[2], issued[k][1]>> \notin DOMAIN objects

\* C2: every object there is was made of something whole; an upload that an object
\* was made of had processed a finish-flagged chunk.
VisibleOnlyWhenComplete ==
    /\ \A o \in DOMAIN objects : objects[o].of_finished
    /\ \A u \in 1..Len(uploads) : uploads[u].produced > 0 => uploads[u].finished

\* C2, its case: an upload took bytes in a chunk and an object was made of it, and
\* another upload has taken bytes, is not finished, and has no object.
ObjectOfCompleteUpload ==
    /\ \E u \in 1..Len(uploads) : uploads[u].produced > 0 /\ uploads[u].appended > 0
    /\ \E u \in 1..Len(uploads) :
          /\ uploads[u].produced = 0 /\ uploads[u].appended > 0 /\ ~uploads[u].finished

StreamWithoutFinishIsInvalid ==
    [][\A t \in GrpcThreads :
           InsertObjectEnd(t) =>
               /\ InsertObjectEndCode(thr[t]) = InvalidArgument
               /\ objects' = objects]_vars

\* C5: whenever an upload becomes an object, through the REST chunk call or through
\* the stream, the upload's precondition holds in the state the object is created in.
PreconditionsAtMaterialization ==
    [][/\ \A u \in 1..Len(uploads) :
              uploads'[u].produced > uploads[u].produced =>
                  check_object_generation(objects, uploads[u].bucket, uploads[u].name,
                                          uploads[u].ifGenerationMatch)
       /\ \A t \in GrpcThreads : \A req \in Requests :
              /\ req.first_message = "insert_object_spec"
              /\ InsertObjectMessage(t, req)
              /\ objects' # objects
              => check_object_generation(objects, req.bucket, req.name,
                                         req.ifGenerationMatch)]_vars

\* C6: between the precondition check of a creating operation and its creation of the
\* object no other request changes what the operation has read: a handler that has
\* checked still finds the latest generation of its target that it saw.
NoInterleavedMutation ==
    \A t \in RestThreads :
        thr[t].pc \in {"resumable_upload_chunk", "objects_copy"} =>
            LatestGeneration(objects, thr[t].dst[1], thr[t].dst[2]) = thr[t].seen

\* C7: once an upload has processed a finish-flagged chunk, no step changes its
\* buffer or its committed_size, and no second object is made of it.
CompleteIsTerminal ==
    [][\A u \in 1..Len(uploads) :
           uploads[u].finished =>
               /\ uploads'[u].media = uploads[u].media
               /\ uploads'[u].committed_size = uploads[u].committed_size
               /\ uploads'[u].produced <= 1]_vars

\* C8: after an open upload was cancelled, a status query and a second cancel of its
\* id fail with NotFound, nothing is appended to it any more and no object is made
\* of it.
CancelledIsGone ==
    [][\A u \in 1..Len(uploads) :
           uploads[u].reg = "cancelled" /\ ~uploads[u].finished =>
               /\ QueryWriteStatusCode(u) = NotFound
               /\ delete_resumable_uploadCode(u) = NotFound
               /\ uploads'[u] = uploads[u]]_vars

\* C9: a call that returns NotFound, PreconditionFailed or InvalidArgument has changed
\* no object and no upload: not the streamed insert, at any of its messages or at
\* its end, not the resumable chunk call, not the copy.
ErrorsChangeNothing ==
    [][/\ \A t \in GrpcThreads :
              \/ InsertObjectEnd(t) /\ InsertObjectEndCode(thr[t]) \in Errors
              \/ \E req \in Requests :
                     /\ InsertObjectMessage(t, req)
                     /\ InsertObjectMessageCode(thr[t], req) \in Errors
              => ~thr[t].dirty /\ objects' = objects /\ uploads' = uploads
       /\ \A t \in RestThreads :
              /\ \A b \in BucketNames, u \in UploadIds, content \in Chunks, final \in BOOLEAN :
                     /\ resumable_upload_chunk(t, b, u, content, final)
                     /\ resumable_upload_chunkCode(b, u, final) \in Errors
                     => uploads' = uploads
              /\ objects_copy_create(t) /\ objects_copy_createCode(thr[t]) \in Errors
                     => objects' = objects]_vars

\* C10: a copy from one bucket to another leaves the source as it was: the object
\* under the source's bucket, name and generation is the same after the copy.
CopyLeavesSource ==
    [][\A t \in RestThreads :
           /\ objects_copy_create(t)
           /\ objects_copy_createCode(thr[t]) = OK
           /\ thr[t].src \in DOMAIN objects
           /\ thr[t].src[1] # thr[t].dst[1]
           => /\ thr[t].src \in DOMAIN objects'
              /\ objects'[thr[t].src] = objects[thr[t].src]]_vars

\* C11: a copy that succeeds creates an object under the destination's bucket and
\* name whose bytes are the bytes of the source as it was looked up, at a generation
\* that was never issued before and is not the source's.
CopyCarriesBytes ==
    [][\A t \in RestThreads :
           objects_copy_create(t) /\ objects_copy_createCode(thr[t]) = OK =>
               LET dest == <<thr[t].dst[1], thr[t].dst[2], generation_counter'>>
               IN /\ dest \notin DOMAIN objects
                  /\ dest \in DOMAIN objects'
                  /\ objects'[dest].media = thr[t].obj.media
                  /\ objects'[dest].generation = dest[3]
                  /\ dest[3] # thr[t].src[3]
                  /\ \A k \in Keys : \A i \in 1..Len(issued[k]) : issued[k][i] # dest[3]]_vars

\* C11, its case: an object of one bucket and an object of another hold the same byte,
\* which only a copy from one bucket to the other brings about.
CopiedAcrossBuckets ==
    \E o1 \in DOMAIN objects : \E o2 \in DOMAIN objects :
        /\ o1[1] # o2[1]
        /\ objects[o1].media # <<>>
        /\ objects[o1].media = objects[o2].media
        /\ o1[3] # o2[3]

RECURSIVE Concatenation(_)
\* The sequences of a list, one after the other.
Concatenation(seqs) ==
    IF seqs = <<>> THEN <<>> ELSE Head(seqs) \o Concatenation(Tail(seqs))

\* The object an entry of a source list names, as the store holds it.
Named(b, s) == objects[ObjectLookup(objects, b, s.name, s.generation)]

\* C12: a compose of one or more sources that succeeds creates the destination with
\* the bytes of its sources, in the order of the list and as often as listed, at a
\* generation that was never issued before.
ComposeConcatenates ==
    [][\A t \in RestThreads, b \in BucketNames, n \in ObjectNames :
           \A sources \in SourceLists(b) :
               Len(sources) >= 1 /\ objects_compose(t, b, n, FALSE, sources) =>
                   LET dest == <<b, n, generation_counter'>>
                   IN /\ dest \in DOMAIN objects'
                      /\ objects'[dest].media =
                             Concatenation([i \in 1..Len(sources) |->
                                               Named(b, sources[i]).media])
                      /\ \A k \in Keys : \A i \in 1..Len(issued[k]) :
                             issued[k][i] # dest[3]]_vars

\* C12, its case: an object holds a later byte before an earlier one, or one byte
\* twice: it was composed of two sources, in the order of the list.
ComposedInListOrder ==
    \E o \in DOMAIN objects :
        /\ Len(objects[o].media) = 2
        /\ objects[o].media[1] >= objects[o].media[2]

\* C13: a compose whose source list is empty is answered with InvalidArgument, and
\* no step is such a compose creating an object.
EmptyComposeRejected ==
    [][\A b \in BucketNames :
           /\ lookup_bucket(buckets, b) => objects_composeCode(b, FALSE, <<>>) = InvalidArgument
           /\ \A t \in RestThreads, n \in ObjectNames :
                  ~objects_compose(t, b, n, FALSE, <<>>)]_vars

\* C14: a source list of more than 32 entries is answered with InvalidArgument,
\* whether its sources are there or not, and a list of exactly 32 sources that are
\* there is composed.
ComposeLimit ==
    \A b \in BucketNames : \A sources \in SourceLists(b) :
        /\ Len(sources) > 32 => objects_composeCode(b, FALSE, sources) = InvalidArgument
        /\ /\ Len(sources) = 32
           /\ lookup_bucket(buckets, b)
           /\ \A i \in 1..Len(sources) :
                  ObjectLookup(objects, b, sources[i].name, sources[i].generation) # <<>>
           => objects_composeCode(b, FALSE, sources) = OK

\* C14, its case: an object of 32 bytes, composed of 32 times one source of one
\* byte, which a list of 33 entries names as well.
ComposedOfThirtyTwo ==
    \E o \in DOMAIN objects :
        /\ Len(objects[o].media) = 32
        /\ \E sources \in SourceLists(o[1]) :
              /\ Len(sources) = 33
              /\ ObjectLookup(objects, o[1], sources[1].name, sources[1].generation) # <<>>

\* C15: a compose creates its destination only when every entry of the list names
\* an object that is there, at the generation it pins, and whose generation is the
\* entry's ifGenerationMatch when it has one; otherwise the call is answered with
\* NotFound or PreconditionFailed.
ComposeAllOrNothing ==
    [][\A b \in BucketNames : \A sources \in SourceLists(b) :
           LET passes(s) ==
                   /\ ObjectLookup(objects, b, s.name, s.generation) # <<>>
                   /\ s.ifGenerationMatch # None =>
                          s.ifGenerationMatch = LatestGeneration(objects, b, s.name)
               all == \A i \in 1..Len(sources) : passes(sources[i])
           IN /\ ~all /\ Len(sources) <= 32 =>
                     objects_composeCode(b, FALSE, sources) \in {NotFound, PreconditionFailed}
              /\ \A t \in RestThreads, n \in ObjectNames :
                     objects_compose(t, b, n, FALSE, sources) => all]_vars

\* C15, its case: a list of two entries whose first names an object that is there
\* and whose second fails its ifGenerationMatch, while an object was composed.
SecondSourceFails ==
    \E b \in BucketNames : \E sources \in SourceLists(b) :
        /\ Len(sources) = 2
        /\ SourceCode(objects, b, sources[1]) = OK
        /\ SourceCode(objects, b, sources[2]) = PreconditionFailed
        /\ objects_composeCode(b, FALSE, sources) = PreconditionFailed
        /\ \E o \in DOMAIN objects : Len(objects[o].media) = 2

\* C16: an object update whose ifMetagenerationMatch is the object's metageneration
\* succeeds; it adds exactly one to the metageneration and leaves the generation and
\* the bytes; the same call again, its value now stale, gets PreconditionFailed, so it
\* is no step and changes nothing.
UpdateAtMetageneration ==
    [][\A b \in BucketNames, n \in ObjectNames, p \in MetagenerationArgs \ {None} :
          \A g \in GenerationArgs(b, n) :
             LET key == ObjectLookup(objects, b, n, g)
             IN /\ (key # <<>> /\ objects[key].metageneration = p)
                      => objects_updateCode(objects, b, n, g, p) = OK
                /\ \A t \in RestThreads :
                      objects_update(t, b, n, g, p)
                      => /\ key \in DOMAIN objects'
                         /\ objects'[key].metageneration = p + 1
                         /\ objects'[key].generation = objects[key].generation
                         /\ objects'[key].media = objects[key].media
                         /\ objects_updateCode(objects', b, n, g, p) = PreconditionFailed
      ]_vars

\* An object updated once, with bytes: the value that matched is stale now.
UpdatedOnce ==
    \E k \in DOMAIN objects :
       /\ objects[k].metageneration = 2
       /\ objects[k].acl = <<>>
       /\ objects[k].media # <<>>
       /\ objects_updateCode(objects, k[1], k[2], k[3], 1) = PreconditionFailed
       /\ objects_updateCode(objects, k[1], k[2], k[3], 2) = OK

\* C17: every successful bucket update or patch, bucket ACL insert, update or delete,
\* IAM policy set and retention-policy lock leaves the bucket at a metageneration
\* strictly greater than before the call.
MetagenerationCountsEveryMutation ==
    [][\A t \in RestThreads : \A b \in DOMAIN buckets :
          (\/ \E data \in BucketData : buckets_update(t, b, data)
           \/ \E data \in BucketData : buckets_patch(t, b, data)
           \/ \E entity \in Entities, role \in Roles : bucket_acl_create(t, b, entity, role)
           \/ \E entity \in Entities, role \in Roles : bucket_acl_update(t, b, entity, role)
           \/ \E entity \in Entities : bucket_acl_delete(t, b, entity)
           \/ bucket_set_iam_policy(t, b)
           \/ bucket_lock_retention_policy(t, b))
          => buckets'[b].metageneration > buckets[b].metageneration
      ]_vars

\* No entity has two entries in the list.
OneEntryPerEntity(acl) ==
    \A i, j \in 1..Len(acl) : acl[i].entity = acl[j].entity => i = j

\* The role the list gives the entity.
RoleOf(acl, entity) == acl[CHOOSE i \in 1..Len(acl) : acl[i].entity = entity].role

\* C18: no ACL list of a bucket or of an object ever holds two entries for one
\* entity; an insert (POST) or update (PUT, PATCH) for an entity the list has gives
\* the entry the new role and leaves the length of the list.
AclReplacesNeverDuplicates ==
    [][/\ \A b \in DOMAIN buckets' : OneEntryPerEntity(buckets'[b].acl)
       /\ \A k \in DOMAIN objects' : OneEntryPerEntity(objects'[k].acl)
       /\ \A t \in RestThreads, entity \in Entities, role \in Roles :
             /\ \A b \in DOMAIN buckets :
                   (/\ HasEntity(buckets[b].acl, entity)
                    /\ \/ bucket_acl_create(t, b, entity, role)
                       \/ bucket_acl_update(t, b, entity, role))
                   => /\ Len(buckets'[b].acl) = Len(buckets[b].acl)
                      /\ RoleOf(buckets'[b].acl, entity) = role
             /\ \A k \in DOMAIN objects :
                   (/\ HasEntity(objects[k].acl, entity)
                    /\ \/ objects_acl_create(t, k[1], k[2], k[3], entity, role)
                       \/ objects_acl_update(t, k[1], k[2], k[3], entity, role))
                   => /\ Len(objects'[k].acl) = Len(objects[k].acl)
                      /\ RoleOf(objects'[k].acl, entity) = role
      ]_vars

\* A bucket whose list of two entries has had an entry replaced.
AclEntryReplaced ==
    \E b \in DOMAIN buckets :
       /\ buckets[b].acl_replaced >= 1
       /\ Len(buckets[b].acl) = 2

\* C19: a status query on a registered upload is answered OK with the upload's
\* committed_size and complete as they are, while the upload is open and once it is
\* complete, and a status query is no change of any state.
StatusQueryReadsOnly ==
    /\ [](\A u \in 1..Len(uploads) :
             UploadLookup(uploads, u)
             => /\ QueryWriteStatusCode(u) = OK
                /\ QueryWriteStatusResponse(uploads[u]).committed_size
                      = uploads[u].committed_size
                /\ QueryWriteStatusResponse(uploads[u]).complete = uploads[u].complete)
    /\ [][\A t \in GrpcThreads, u \in UploadIds : QueryWriteStatus(t, u) => UNCHANGED vars]_vars

\* C19, its case: a complete upload that holds bytes and has become an object, and
\* an open one, while a status query can be served.
StatusOfCompleteUpload ==
    /\ \E t \in GrpcThreads : thr[t].pc = "idle"
    /\ \E u \in 1..Len(uploads) :
          /\ UploadLookup(uploads, u)
          /\ uploads[u].complete /\ uploads[u].committed_size > 0
          /\ uploads[u].produced > 0
    /\ \E u \in 1..Len(uploads) : UploadLookup(uploads, u) /\ ~uploads[u].complete

\* C20: a chunk for one upload id, from a stream or from a REST request, changes no
\* other upload: the registry keeps its length and every other entry, and the local
\* upload of a stream stays as it is; a message of a stream that has an upload is
\* never answered with an internal error.  (A step that leaves both the stream and the
\* registry as they were has changed no upload.)
ChunkTouchesOneUpload ==
    [][/\ \A t \in GrpcThreads :
             (thr[t].pc = "InsertObject" /\ (thr'[t] # thr[t] \/ uploads' # uploads))
             => \A req \in Requests :
                   InsertObjectMessage(t, req)
                   => LET ref == Selected(thr[t], req)
                      IN /\ Len(uploads') = Len(uploads)
                         /\ \A u \in 1..Len(uploads) : u # ref => uploads'[u] = uploads[u]
                         /\ ref # 0 => InsertObjectMessageCode(thr[t], req) # Unknown
       /\ \A t \in RestThreads :
             (Takes(t) /\ UNCHANGED <<buckets, objects>>)
             => \A u \in 1..Len(uploads), b \in BucketNames, content \in Chunks,
                   final \in BOOLEAN :
                   resumable_upload_chunk(t, b, u, content, final)
                   => /\ Len(uploads') = Len(uploads)
                      /\ \A o \in 1..Len(uploads) : o # u => uploads'[o] = uploads[o]
                      /\ \A g \in GrpcThreads : thr'[g] = thr[g]
                      /\ resumable_upload_chunkCode(b, u, final) # Unknown
      ]_vars

\* C20, its case: a stream holds an upload id that took two chunks, next to a
\* registered upload that took none.
TwoUploadsOneWritten ==
    \E u, o \in 1..Len(uploads) :
        /\ u # o
        /\ \E t \in GrpcThreads : thr[t].pc = "InsertObject" /\ thr[t].upload = u
        /\ uploads[u].appended = 2
        /\ UploadLookup(uploads, o) /\ uploads[o].appended = 0 /\ uploads[o].media = <<>>

\* C21: once a stream has selected its upload, every later message of the stream is
\* appended to that upload: after a message that is accepted the upload of the stream
\* holds what it held before and the chunk of the message, and the object a message
\* with the finish flag creates holds just that.
StreamKeepsItsUpload ==
    [][\A t \in GrpcThreads :
          (thr[t].pc = "InsertObject" /\ thr[t].upload # 0)
          => \A req \in Requests :
                (InsertObjectMessage(t, req) /\ InsertObjectMessageCode(thr[t], req) = OK)
                => LET held == Deref(uploads, thr[t].local, thr[t].upload)
                       media == held.media \o req.content
                   IN IF req.finish_write
                      THEN \E o \in DOMAIN objects' \ DOMAIN objects :
                              objects'[o].media = media
                      ELSE Deref(uploads', thr'[t].local, thr'[t].upload).media = media
      ]_vars

\* C22: a bucket whose retention policy is locked is there, locked and with the same
\* retention period after every step: an update, a patch or another lock call does
\* not unlock it and does not change the policy.
LockedStaysLocked ==
    [][\A b \in DOMAIN buckets :
          buckets[b].is_locked
          => /\ b \in DOMAIN buckets'
             /\ buckets'[b].is_locked
             /\ buckets'[b].retention_period = buckets[b].retention_period
      ]_vars

\* C22, its case: a locked bucket with a retention period has taken an update that
\* carried another period.
LockedPolicyKept ==
    \E b \in DOMAIN buckets :
       /\ buckets[b].is_locked
       /\ buckets[b].retention_period = 1
       /\ buckets[b].policy_kept >= 1

\* C23: a reader that finds the test bucket finds it whole, at metageneration 4 or
\* later and with versioning enabled as long as nothing has updated it; and a call
\* that seeds while the test bucket is there leaves the bucket as it is.
SeededBucketIsWhole ==
    /\ [](/\ \E t \in Threads : Free(t)
          /\ buckets_getCode(TestBucket) = OK
          => /\ buckets_getResponse(TestBucket).metageneration >= 4
             /\ buckets_getResponse(TestBucket).metageneration = 4
                   => buckets_getResponse(TestBucket).versioning)
    /\ [][\A t \in Threads :
             (/\ lookup_bucket(buckets, TestBucket)
              /\ ~thr[t].dirty
              /\ \/ insert_test_bucket_create(t)
                 \/ insert_test_bucket_metageneration(t)
                 \/ insert_test_bucket_versioning(t))
             => buckets' = buckets
       ]_vars

====
